---- MODULE Spec2Model ----
(***************************************************************************)
(* Model of python_coreml_stable_diffusion/mixed_bit_compression_apply.py  *)
(* main(args): load a compiled model, load a palettization recipe, hash    *)
(* the reference weights of the recipe's layers, run one palettization     *)
(* pass per bit-width of NBITS with op_selector as the selection           *)
(* predicate, report the statistics and save the model.                    *)
(*                                                                         *)
(* Tensor values are integers.  The values float16 can represent are the   *)
(* multiples of Ulp; a float32 value of the reference model may lie        *)
(* between two of them and is rounded by astype_float16.                   *)
(* A Python local is Unbound (<<>>) or Bound(v) (<<v>>).                   *)
(***************************************************************************)
EXTENDS Integers, Sequences, FiniteSets, TLC

\* ---------------------------------------------------------------- bounds
\* layers in a recipe
MaxLayers == 2

\* const tensors in the compiled model
MaxTensors == 2

\* first elements of float16 tensors are 0..MaxVal ulps
MaxVal == 2

\* largest look-up index a palettized tensor starts with
MaxIndex == 0


\* ------------------------------------------------------------- constants
\* mixed_bit_compression_pre_analysis.NBITS
NBITS == <<1, 2, 4, 6, 8>>

\* mixed_bit_compression_pre_analysis.PALETTIZE_MIN_SIZE, scaled down
MIN_SIZE == 2

\* distance between two neighbouring float16 values, in model units
Ulp == 2

\* ---------------------------------------------------------------- helpers
Unbound == <<>>

Bound(v) == <<v>>

IsBound(x) == Len(x) = 1

Val(x) == x[1]

Range(s) == {s[i] : i \in 1..Len(s)}

Abs(x) == IF x < 0 THEN -x ELSE x

RECURSIVE SumOver(_, _)
SumOver(S, f) ==
    IF S = {} THEN 0
    ELSE LET x == CHOOSE y \in S : TRUE IN f[x] + SumOver(S \ {x}, f)

\* the bit-widths a pass exists for
NBITS_set == Range(NBITS)

\* line 42: NBITS + [16]
AllowedBits == Range(NBITS \o <<16>>)

\* ----------------------------------------------------------------- inputs
\* args.selected_recipe
RecipeArgs == {"recipe_1", "recipe_2"}

\* module names of the reference model, in the order a recipe lists them
LayerNames == [i \in 1..MaxLayers |-> "layer_" \o ToString(i)]

\* bit-widths the recipes of the JSON file use; 3 is not an allowed one
RecipeBits == {4, 6, 16, 3}

\* a recipe: the items of the JSON object, in file order
Recipes ==
    UNION {[1..n -> RecipeBits] : n \in 0..MaxLayers}

RecipeOf(bits) ==
    [i \in 1..Len(bits) |-> [name |-> LayerNames[i], nbits |-> bits[i]]]

\* pre_analysis: a file with one recipe, recipe_1, which is any recipe
PreAnalyses ==
    {[model_version |-> "v1",
      recipes |-> [n \in {"recipe_1"} |-> RecipeOf(b)]] : b \in Recipes}

\* const tensors of the compiled model that pass both guards of op_selector
LargeFloat16Tensors ==
    [first : {Ulp * k : k \in 0..MaxVal}, numel : {MIN_SIZE, MIN_SIZE + 1},
     dtype : {"float16"}, nbits : {0}]

\* a const tensor below MIN_SIZE
SmallTensor ==
    [first |-> 0, numel |-> MIN_SIZE - 1, dtype |-> "float16", nbits |-> 0]

\* a const tensor that is not float16
Float32Tensor ==
    [first |-> 0, numel |-> MIN_SIZE + 1, dtype |-> "float32", nbits |-> 0]

CompiledTensors == LargeFloat16Tensors \cup {SmallTensor, Float32Tensor}

TensorKey(t) ==
    t.first * 100 + t.numel * 10 + (IF t.dtype = "float16" THEN 0 ELSE 1)

\* the compiled models: the traversal order is free, so only one listing
\* of each multiset of tensors is drawn
Models ==
    {m \in UNION {[1..n -> CompiledTensors] : n \in 0..MaxTensors} :
        \A i \in 1..(Len(m) - 1) : TensorKey(m[i]) <= TensorKey(m[i + 1])}

\* weight of a module of the reference model, float32: a value float16
\* has, or one between two of them
TorchWeights ==
    [first : {Ulp * k : k \in 0..MaxVal} \cup {Ulp * MaxVal - 1},
     numel : {MIN_SIZE}, dtype : {"float32"}]

TorchBias == [first |-> 0, numel |-> 1, dtype |-> "float32"]

\* named_parameters() of a module that has a weight and a bias
ModuleParams(name, w) ==
    <<[name |-> name \o ".weight", tensor |-> w],
      [name |-> name \o ".bias", tensor |-> TorchBias]>>

RECURSIVE Flatten(_)
Flatten(ss) ==
    IF ss = <<>> THEN <<>> ELSE Head(ss) \o Flatten(Tail(ss))

\* the reference models get_pipeline can return for a recipe of n layers:
\* each of the n modules is there with some weight, or is not there at all
Pipelines(n) ==
    {[unet |-> Flatten([i \in 1..n |->
                  IF c[i] = <<>> THEN <<>> ELSE ModuleParams(LayerNames[i], c[i][1])])] :
        c \in [1..n -> {<<>>} \cup {<<w>> : w \in TorchWeights}]}

\* ------------------------------------------------------------------ state
VARIABLES
    pc,               \* position in main
    error,            \* the exception that ended the run, or "none"
    error_info,       \* the names the KeyError message lists
    selected_recipe,  \* args.selected_recipe
    original,         \* the model as it was read from args.mlpackage_path
    coreml_model,     \* the local coreml_model
    pre_analysis,     \* the local pre_analysis
    recipe,           \* the local recipe
    pipe,             \* the local pipe
    torch_model,      \* the local torch_model
    hashed_recipe,    \* the dict hashed_recipe, items in insertion order
    layer_idx,        \* items of recipe the loop of line 67 has finished
    pass_idx,         \* position of the loop of line 107 in NBITS
    current_nbits,    \* the closure variable current_nbits
    visited,          \* consts the running pass has asked op_selector about
    selected,         \* consts op_selector accepted in the running pass
    precision_stats,  \* the dict precision_stats
    saved,            \* the model written to args.o
    last_call,        \* history: the latest op_selector call and its outcome
    accepted_by       \* history: per const, the passes that accepted it

vars ==
    <<pc, error, error_info, selected_recipe, original, coreml_model,
      pre_analysis, recipe, pipe, torch_model, hashed_recipe, layer_idx,
      pass_idx, current_nbits, visited, selected, precision_stats, saved,
      last_call, accepted_by>>

\* -------------------------------------------------------- pure functions
\* line 60: tensor.ravel()[0] if tensor.size > 0 else 0 + tensor_size
get_tensor_hash(tensor) ==
    IF tensor.numel > 0 THEN tensor.first ELSE 0 + tensor.numel

\* round to the nearest float16 value, a tie to the even one
RoundToFloat16(v) ==
    LET r == v % Ulp
        lower == v - r
        upper == lower + Ulp
    IN  IF r = 0 THEN v
        ELSE IF 2 * r < Ulp THEN lower
        ELSE IF 2 * r > Ulp THEN upper
        ELSE IF (lower \div Ulp) % 2 = 0 THEN lower ELSE upper

\* line 69: tensor.cpu().numpy().astype(np.float16)
astype_float16(tensor) ==
    [first |-> RoundToFloat16(tensor.first), numel |-> tensor.numel,
     dtype |-> "float16"]

\* lines 68-71: the weights of named_parameters() whose name is
\* torch_module_name + '.weight'
MatchingWeights(named_parameters, torch_module_name) ==
    SelectSeq(named_parameters,
              LAMBDA np : np.name = torch_module_name \o ".weight")

\* line 72: hashed_recipe[key] = value; a key that is there keeps its place
DictSet(d, key, value) ==
    IF \E i \in 1..Len(d) : d[i].key = key
    THEN [i \in 1..Len(d) |->
            IF d[i].key = key THEN [key |-> key, value |-> value] ELSE d[i]]
    ELSE Append(d, [key |-> key, value |-> value])

RECURSIVE ArgminFrom(_, _, _)
ArgminFrom(p, i, best) ==
    IF i > Len(p) THEN best
    ELSE ArgminFrom(p, i + 1, IF p[i] < p[best] THEN i ELSE best)

\* mutant of argmin: a tie goes to the last smallest index
argmin_last(p) ==
    CHOOSE i \in 1..Len(p) :
        /\ \A j \in 1..Len(p) : p[i] <= p[j]
        /\ \A j \in (i + 1)..Len(p) : p[j] > p[i]

\* line 94: pdist.argmin(), the first index of the smallest element
argmin(p) == ArgminFrom(p, 2, 1)

\* mutant of op_selector: no dtype guard
op_selector_no_dtype(const, nbits, table) ==
    IF const.numel < MIN_SIZE THEN [raised |-> FALSE, ret |-> FALSE]
    ELSE IF Len(table) = 0 THEN [raised |-> TRUE, ret |-> FALSE]
    ELSE LET tensor_hash == get_tensor_hash(const)
             pdist == [i \in 1..Len(table) |-> Abs(table[i].key - tensor_hash)]
         IN  [raised |-> FALSE, ret |-> nbits = table[argmin(pdist)].value]

\* mutant of op_selector: an empty table selects nothing
op_selector_empty_false(const, nbits, table) ==
    IF const.numel < MIN_SIZE \/ const.dtype # "float16" \/ Len(table) = 0
    THEN [raised |-> FALSE, ret |-> FALSE]
    ELSE LET tensor_hash == get_tensor_hash(const)
             pdist == [i \in 1..Len(table) |-> Abs(table[i].key - tensor_hash)]
         IN  [raised |-> FALSE, ret |-> nbits = table[argmin(pdist)].value]

\* lines 79-105 without the counters: what op_selector returns for a const
\* while current_nbits is nbits, or that it raises (argmin of an empty array)
op_selector(const, nbits, table) ==
    IF const.numel < MIN_SIZE THEN [raised |-> FALSE, ret |-> FALSE]
    ELSE IF const.dtype # "float16" THEN [raised |-> FALSE, ret |-> FALSE]
    ELSE LET tensor_hash == get_tensor_hash(const)
             hashes == [i \in 1..Len(table) |-> table[i].key]
             pdist == [i \in 1..Len(hashes) |-> Abs(hashes[i] - tensor_hash)]
         IN  IF Len(pdist) = 0 THEN [raised |-> TRUE, ret |-> FALSE]
             ELSE LET matched == argmin(pdist)
                      target_nbits == table[matched].value
                  IN  [raised |-> FALSE, ret |-> nbits = target_nbits]

RECURSIVE Pow2(_)
Pow2(n) == IF n = 0 THEN 1 ELSE 2 * Pow2(n - 1)

\* the look-up indices a palette of nbits bits can start with
IndexVals(nbits) ==
    {i \in 0..MaxIndex : i < Pow2(nbits)}

\* mutant of PalettizedModels: the converted const keeps dtype float16
PalettizedModels_keep_dtype(model, sel, nbits) ==
    {[t \in 1..Len(model) |->
        IF t \in sel
        THEN [first |-> Ulp * idx[t], numel |-> model[t].numel,
              dtype |-> "float16", nbits |-> nbits]
        ELSE model[t]] : idx \in [1..Len(model) -> IndexVals(nbits)]}

\* line 116: the models palettize_weights can return: each selected const
\* becomes a tensor of look-up indices of the pass's bit-width (lines 84-86);
\* its palette has 2^nbits entries, fewer than PALETTIZE_MIN_SIZE, and is
\* left out
PalettizedModels(model, sel, nbits) ==
    {[t \in 1..Len(model) |->
        IF t \in sel
        THEN [first |-> Ulp * idx[t], numel |-> model[t].numel,
              dtype |-> "uint8", nbits |-> nbits]
        ELSE model[t]] : idx \in [1..Len(model) -> IndexVals(nbits)]}

\* line 27
ZeroStats ==
    [nbits \in NBITS_set |-> [num_tensors |-> 0, numel |-> 0]]

\* lines 102-103: the counters of an accepted const
CountAccepted(stats, nbits, const) ==
    [stats EXCEPT ![nbits] =
        [num_tensors |-> @.num_tensors + 1,
         numel |-> @.numel + const.numel]]

\* line 120
tot_numel(stats) ==
    SumOver(NBITS_set, [nbits \in NBITS_set |-> stats[nbits].numel])

\* line 121
final_size(stats) ==
    SumOver(NBITS_set, [nbits \in NBITS_set |-> stats[nbits].numel * nbits])

\* ---------------------------------------------------------------- actions
Init ==
    /\ pc = "load_model"
    /\ error = "none"
    /\ error_info = {}
    /\ selected_recipe \in RecipeArgs
    /\ original = Unbound
    /\ coreml_model = Unbound
    /\ pre_analysis = Unbound
    /\ recipe = Unbound
    /\ pipe = Unbound
    /\ torch_model = Unbound
    /\ hashed_recipe = <<>>
    /\ layer_idx = 0
    /\ pass_idx = 0
    /\ current_nbits = Unbound
    /\ visited = {}
    /\ selected = {}
    /\ precision_stats = ZeroStats
    /\ saved = Unbound
    /\ last_call = Unbound
    /\ accepted_by = <<>>

Raise(exc) ==
    /\ pc' = "error"
    /\ error' = exc

\* lines 23-27: the contents of the package are drawn when it is read
LoadModel ==
    /\ pc = "load_model"
    /\ \E m \in Models :
        /\ coreml_model' = Bound(m)
        /\ original' = Bound(m)
        /\ accepted_by' = [t \in 1..Len(m) |-> {}]
    /\ precision_stats' = ZeroStats
    /\ pc' = "load_json"
    /\ UNCHANGED <<error, error_info, selected_recipe, pre_analysis, recipe,
                   pipe, torch_model, hashed_recipe, layer_idx, pass_idx,
                   current_nbits, visited, selected, saved, last_call>>

\* lines 30-31
LoadRecipes ==
    /\ pc = "load_json"
    /\ \E p \in PreAnalyses : pre_analysis' = Bound(p)
    /\ pc' = "select_recipe"
    /\ UNCHANGED <<error, error_info, selected_recipe, original, coreml_model,
                   recipe, pipe, torch_model, hashed_recipe, layer_idx,
                   pass_idx, current_nbits, visited, selected,
                   precision_stats, saved, last_call, accepted_by>>

\* lines 33-41
SelectRecipe ==
    /\ pc = "select_recipe"
    /\ LET recipes == Val(pre_analysis).recipes
       IN  IF selected_recipe \notin DOMAIN recipes
           THEN /\ Raise("KeyError")
                /\ error_info' = DOMAIN recipes
                /\ UNCHANGED recipe
           ELSE /\ recipe' = Bound(recipes[selected_recipe])
                /\ pc' = "check_recipe"
                /\ UNCHANGED <<error, error_info>>
    /\ UNCHANGED <<selected_recipe, original, coreml_model, pre_analysis,
                   pipe, torch_model, hashed_recipe, layer_idx, pass_idx,
                   current_nbits, visited, selected, precision_stats, saved,
                   last_call, accepted_by>>

\* lines 42-43
CheckRecipe ==
    /\ pc = "check_recipe"
    /\ IF \A i \in 1..Len(Val(recipe)) : Val(recipe)[i].nbits \in AllowedBits
       THEN pc' = "get_pipeline" /\ UNCHANGED error
       ELSE Raise("AssertionError")
    /\ UNCHANGED <<error_info, selected_recipe, original, coreml_model,
                   pre_analysis, recipe, pipe, torch_model, hashed_recipe,
                   layer_idx, pass_idx, current_nbits, visited, selected,
                   precision_stats, saved, last_call, accepted_by>>

\* lines 62-66: the reference model is drawn when it is built
GetPipeline ==
    /\ pc = "get_pipeline"
    /\ \E p \in Pipelines(Len(Val(recipe))) :
        /\ pipe' = Bound(p)
        /\ torch_model' = Bound(p.unet)
    /\ hashed_recipe' = <<>>
    /\ layer_idx' = 0
    /\ pc' = "extract"
    /\ UNCHANGED <<error, error_info, selected_recipe, original, coreml_model,
                   pre_analysis, recipe, pass_idx, current_nbits, visited,
                   selected, precision_stats, saved, last_call, accepted_by>>

\* mutant of ExtractLayer: a layer without a weight is skipped
ExtractLayer_skip ==
    /\ pc = "extract"
    /\ layer_idx < Len(Val(recipe))
    /\ LET item == Val(recipe)[layer_idx + 1]
           found == MatchingWeights(Val(torch_model), item.name)
       IN  IF found = <<>>
           THEN UNCHANGED hashed_recipe
           ELSE hashed_recipe' =
                  DictSet(hashed_recipe,
                          get_tensor_hash(astype_float16(found[1].tensor)),
                          item.nbits)
    /\ layer_idx' = layer_idx + 1
    /\ UNCHANGED <<pc, error, error_info, selected_recipe, original,
                   coreml_model, pre_analysis, recipe, pipe, torch_model,
                   pass_idx, current_nbits, visited, selected,
                   precision_stats, saved, last_call, accepted_by>>

\* lines 67-72: one iteration of the loop over recipe.items(); [0] of an
\* empty list raises IndexError
ExtractLayer ==
    /\ pc = "extract"
    /\ layer_idx < Len(Val(recipe))
    /\ LET item == Val(recipe)[layer_idx + 1]
           found == MatchingWeights(Val(torch_model), item.name)
       IN  IF found = <<>>
           THEN /\ Raise("IndexError")
                /\ UNCHANGED <<hashed_recipe, layer_idx>>
           ELSE /\ hashed_recipe' =
                     DictSet(hashed_recipe,
                             get_tensor_hash(astype_float16(found[1].tensor)),
                             item.nbits)
                /\ layer_idx' = layer_idx + 1
                /\ UNCHANGED <<pc, error>>
    /\ UNCHANGED <<error_info, selected_recipe, original, coreml_model,
                   pre_analysis, recipe, pipe, torch_model, pass_idx,
                   current_nbits, visited, selected, precision_stats, saved,
                   last_call, accepted_by>>

\* lines 74-75: del pipe unbinds the name pipe; torch_model stays bound
ReleasePipeline ==
    /\ pc = "extract"
    /\ layer_idx = Len(Val(recipe))
    /\ pipe' = Unbound
    /\ pass_idx' = 1
    /\ pc' = "start_pass"
    /\ UNCHANGED <<error, error_info, selected_recipe, original, coreml_model,
                   pre_analysis, recipe, torch_model, hashed_recipe,
                   layer_idx, current_nbits, visited, selected,
                   precision_stats, saved, last_call, accepted_by>>

\* lines 107-115: the head of one iteration of the loop over NBITS
StartPass ==
    /\ pc = "start_pass"
    /\ pass_idx <= Len(NBITS)
    /\ current_nbits' = Bound(NBITS[pass_idx])
    /\ visited' = {}
    /\ selected' = {}
    /\ pc' = "palettize"
    /\ UNCHANGED <<error, error_info, selected_recipe, original, coreml_model,
                   pre_analysis, recipe, pipe, torch_model, hashed_recipe,
                   layer_idx, pass_idx, precision_stats, saved, last_call,
                   accepted_by>>

\* lines 79-105: palettize_weights asks op_selector about one const it has
\* not asked about in this pass, in any order
OpSelectorCall(t) ==
    /\ pc = "palettize"
    /\ t \in 1..Len(Val(coreml_model))
    /\ t \notin visited
    /\ LET const == Val(coreml_model)[t]
           out == op_selector(const, Val(current_nbits), hashed_recipe)
       IN  /\ last_call' = Bound([t |-> t, const |-> const,
                                  nbits |-> Val(current_nbits),
                                  raised |-> out.raised, ret |-> out.ret])
           /\ IF out.raised
              THEN /\ Raise("ValueError")
                   /\ UNCHANGED <<visited, selected, precision_stats,
                                  accepted_by>>
              ELSE /\ visited' = visited \cup {t}
                   /\ UNCHANGED <<pc, error>>
                   /\ IF out.ret
                      THEN /\ precision_stats' =
                                CountAccepted(precision_stats,
                                              Val(current_nbits), const)
                           /\ selected' = selected \cup {t}
                           /\ accepted_by' =
                                [accepted_by EXCEPT
                                    ![t] = @ \cup {Val(current_nbits)}]
                      ELSE UNCHANGED <<selected, precision_stats, accepted_by>>
    /\ UNCHANGED <<error_info, selected_recipe, original, coreml_model,
                   pre_analysis, recipe, pipe, torch_model, hashed_recipe,
                   layer_idx, pass_idx, current_nbits, saved>>

\* lines 116-117: palettize_weights returns the converted model, which
\* replaces coreml_model; the loop moves on
FinishPass ==
    /\ pc = "palettize"
    /\ visited = 1..Len(Val(coreml_model))
    /\ \E m \in PalettizedModels(Val(coreml_model), selected,
                                 Val(current_nbits)) :
        coreml_model' = Bound(m)
    /\ pass_idx' = pass_idx + 1
    /\ pc' = IF pass_idx < Len(NBITS) THEN "start_pass" ELSE "report"
    /\ UNCHANGED <<error, error_info, selected_recipe, original,
                   pre_analysis, recipe, pipe, torch_model, hashed_recipe,
                   layer_idx, current_nbits, visited, selected,
                   precision_stats, saved, last_call, accepted_by>>

\* mutant of Report: the average is skipped when nothing was palettized
Report_guarded ==
    /\ pc = "report"
    /\ pc' = "save"
    /\ UNCHANGED <<error, error_info, selected_recipe, original, coreml_model,
                   pre_analysis, recipe, pipe, torch_model, hashed_recipe,
                   layer_idx, pass_idx, current_nbits, visited, selected,
                   precision_stats, saved, last_call, accepted_by>>

\* lines 120-123: final_size / tot_numel divides two Python ints
Report ==
    /\ pc = "report"
    /\ IF tot_numel(precision_stats) = 0
       THEN Raise("ZeroDivisionError")
       ELSE pc' = "save" /\ UNCHANGED error
    /\ UNCHANGED <<error_info, selected_recipe, original, coreml_model,
                   pre_analysis, recipe, pipe, torch_model, hashed_recipe,
                   layer_idx, pass_idx, current_nbits, visited, selected,
                   precision_stats, saved, last_call, accepted_by>>

\* line 124
Save ==
    /\ pc = "save"
    /\ saved' = coreml_model
    /\ pc' = "done"
    /\ UNCHANGED <<error, error_info, selected_recipe, original, coreml_model,
                   pre_analysis, recipe, pipe, torch_model, hashed_recipe,
                   layer_idx, pass_idx, current_nbits, visited, selected,
                   precision_stats, last_call, accepted_by>>

Next ==
    \/ LoadModel
    \/ LoadRecipes
    \/ SelectRecipe
    \/ CheckRecipe
    \/ GetPipeline
    \/ ExtractLayer
    \/ ReleasePipeline
    \/ StartPass
    \/ \E t \in 1..MaxTensors : OpSelectorCall(t)
    \/ FinishPass
    \/ Report
    \/ Save

Spec == Init /\ [][Next]_vars

\* ------------------------------------------------- notions of the claims
\* a const that passes the size guard and the dtype guard
PassesGuards(const) ==
    const.numel >= MIN_SIZE /\ const.dtype = "float16"

\* the entry of a table of fingerprints nearest to fp, the first of equals
NearestEntry(keys, fp) ==
    CHOOSE i \in 1..Len(keys) :
        /\ \A j \in 1..Len(keys) : Abs(keys[i] - fp) <= Abs(keys[j] - fp)
        /\ \A j \in 1..(i - 1) : Abs(keys[j] - fp) > Abs(keys[i] - fp)

\* the layers of the recipe without a weight in the reference model
MissingLayers ==
    {i \in 1..Len(Val(recipe)) :
        MatchingWeights(Val(torch_model), Val(recipe)[i].name) = <<>>}

\* the reference fingerprint of each layer of the recipe
LayerHashes ==
    [i \in 1..Len(Val(recipe)) |->
        get_tensor_hash(astype_float16(
            MatchingWeights(Val(torch_model), Val(recipe)[i].name)[1].tensor))]

\* the loop over NBITS has run to its end
PassesDone == pass_idx = Len(NBITS) + 1

\* the consts a pass accepted
AcceptedIn(nbits) ==
    {t \in 1..Len(accepted_by) : nbits \in accepted_by[t]}

\* a pass has just returned its model
AfterPass ==
    pc \in {"start_pass", "report"} /\ IsBound(current_nbits)

\* ----------------------------------------------------------------- claims
\* C1: when args.selected_recipe is not a key of pre_analysis["recipes"] the
\* run ends with a KeyError that lists the available recipe names, and the
\* compiled model has not been loaded and nothing is saved at that moment.
C1_UnknownRecipeLeavesModelUnloaded ==
    error = "KeyError" =>
        /\ error_info = DOMAIN Val(pre_analysis).recipes
        /\ coreml_model = Unbound
        /\ saved = Unbound

\* C2: every const that was palettized has the bit-width the recipe gives
\* for the layer whose reference fingerprint is the closest match of the
\* const's fingerprint (the first such layer), also when two layers of the
\* recipe have the same fingerprint.
C2_PalettizedAtClosestLayerBits ==
    pass_idx >= 1 =>
        \A t \in 1..Len(Val(coreml_model)) :
            Val(coreml_model)[t].nbits # 0 =>
                Val(coreml_model)[t].nbits =
                    Val(recipe)[NearestEntry(LayerHashes,
                        get_tensor_hash(Val(original)[t]))].nbits

C4_CountersAreAcceptingCalls ==
    \A nbits \in NBITS_set :
        /\ precision_stats[nbits].num_tensors = Cardinality(AcceptedIn(nbits))
        /\ precision_stats[nbits].numel =
             SumOver(AcceptedIn(nbits),
                     [t \in 1..Len(Val(original)) |-> Val(original)[t].numel])

\* a recipe with one layer at 4 bits and one at 6 bits, and a model of
\* exactly the two weight tensors of these layers, in some order
C4_TwoLayerExample(first, second) ==
    /\ Len(Val(recipe)) = 2
    /\ Val(recipe)[1].nbits = 4
    /\ Val(recipe)[2].nbits = 6
    /\ Len(Val(original)) = 2
    /\ {first, second} = {1, 2}
    /\ PassesGuards(Val(original)[first])
    /\ PassesGuards(Val(original)[second])
    /\ get_tensor_hash(Val(original)[first]) = LayerHashes[1]
    /\ get_tensor_hash(Val(original)[second]) = LayerHashes[2]

\* C4: after all passes precision_stats[b] counts the op_selector calls that
\* returned true while current_nbits was b and sums their element counts;
\* for a recipe with one layer at 4 bits and one at 6 bits and a model of
\* exactly those two weight tensors, num_tensors is 1 for 4 and for 6 and
\* numel is the element count of the layer's tensor.
C4_StatsAfterAllPasses ==
    (PassesDone /\ pc # "error") =>
        /\ C4_CountersAreAcceptingCalls
        /\ \A first, second \in 1..Len(Val(original)) :
             C4_TwoLayerExample(first, second) =>
                /\ precision_stats[4] =
                     [num_tensors |-> 1,
                      numel |-> Val(original)[first].numel]
                /\ precision_stats[6] =
                     [num_tensors |-> 1,
                      numel |-> Val(original)[second].numel]

\* C5: a const that is not float16 is never selected, and a pass is
\* idempotent: on the model a pass for b returned, the pass for b selects
\* nothing and returns the same model.
C5_PassIsIdempotent ==
    /\ (IsBound(last_call) /\ Val(last_call).const.dtype # "float16") =>
          (~Val(last_call).ret /\ ~Val(last_call).raised)
    /\ AfterPass =>
          LET model == Val(coreml_model)
              nbits == Val(current_nbits)
              again == {t \in 1..Len(model) :
                          LET out == op_selector(model[t], nbits, hashed_recipe)
                          IN  out.raised \/ out.ret}
          IN  /\ again = {}
              /\ PalettizedModels(model, again, nbits) = {model}

C5_Witness ==
    /\ AfterPass
    /\ \E t \in 1..Len(Val(coreml_model)) :
        /\ Val(coreml_model)[t].nbits = Val(current_nbits)
        /\ Val(coreml_model)[t].dtype = "uint8"

\* the first layer of the recipe that has no weight
FirstMissing ==
    CHOOSE i \in MissingLayers : \A j \in MissingLayers : i <= j

\* C6 as stated: a layer of the recipe without a "<layer-name>.weight"
\* parameter raises no error.
C6_MissingWeightRaisesNothing ==
    (IsBound(torch_model) /\ MissingLayers # {}) => error = "none"

\* C6 as amended: a layer of the recipe without a "<layer-name>.weight"
\* parameter ends the run with an IndexError at that layer: the table holds
\* entries of the layers before it only, no pass starts, nothing is saved.
C6_MissingWeightRaisesIndexError ==
    (IsBound(torch_model) /\ MissingLayers # {}) =>
        /\ layer_idx < FirstMissing
        /\ Len(hashed_recipe) <= layer_idx
        /\ pc \in {"extract", "error"}
        /\ pc = "error" =>
             (error = "IndexError" /\ layer_idx = FirstMissing - 1)
        /\ pass_idx = 0
        /\ saved = Unbound

C6_Witness ==
    /\ error = "IndexError"
    /\ layer_idx = 1
    /\ Len(hashed_recipe) = 1

\* C7: when the first palettization pass starts, and during every pass, no
\* reference to the reconstructed model is left in main: neither pipe nor
\* its unet (torch_model) is bound.
C7_ReferenceModelReleased ==
    pass_idx >= 1 => (pipe = Unbound /\ torch_model = Unbound)

\* C8: with an empty table every op_selector call on a const that passes
\* the size and dtype guards raises, and no run with an empty table saves
\* the output model.
C8_EmptyTableRaises ==
    /\ (/\ IsBound(last_call)
        /\ Len(hashed_recipe) = 0
        /\ PassesGuards(Val(last_call).const)) =>
          (Val(last_call).raised /\ pc = "error" /\ error = "ValueError")
    /\ (pass_idx >= 1 /\ Len(hashed_recipe) = 0) =>
          (saved = Unbound /\ pc \notin {"save", "done"})

C8_Witness ==
    /\ Len(hashed_recipe) = 0
    /\ error = "ValueError"
    /\ IsBound(last_call)
    /\ PassesGuards(Val(last_call).const)

\* C9: every const is accepted in at most one pass, and the sum of
\* num_tensors over all bit-widths never exceeds the number of consts of
\* the original model that pass the size and dtype guards.
C9_AcceptedInAtMostOnePass ==
    IsBound(original) =>
        /\ \A t \in 1..Len(accepted_by) : Cardinality(accepted_by[t]) <= 1
        /\ SumOver(NBITS_set,
                   [nbits \in NBITS_set |-> precision_stats[nbits].num_tensors])
             <= Cardinality({t \in 1..Len(Val(original)) :
                               PassesGuards(Val(original)[t])})

C9_Witness ==
    /\ PassesDone
    /\ \E t, u \in 1..Len(accepted_by) :
        /\ accepted_by[t] # {}
        /\ accepted_by[u] # {}
        /\ accepted_by[t] # accepted_by[u]

\* C10: the output model is saved only as the last step of a run in which
\* every pass completed and a const was accepted; a run that accepted
\* nothing ends in a ZeroDivisionError before the save, and a run that
\* failed anywhere has saved nothing.
C10_SavedOnlyAfterAcceptance ==
    /\ IsBound(saved) =>
          /\ pc = "done"
          /\ error = "none"
          /\ PassesDone
          /\ saved = coreml_model
          /\ \E t \in 1..Len(accepted_by) : accepted_by[t] # {}
    /\ pc \in {"save", "done"} => tot_numel(precision_stats) > 0
    /\ error # "none" => (pc = "error" /\ saved = Unbound)
    /\ (/\ PassesDone
        /\ pc # "report"
        /\ \A t \in 1..Len(accepted_by) : accepted_by[t] = {}) =>
          (error = "ZeroDivisionError" /\ saved = Unbound)

C10_Witness ==
    /\ PassesDone
    /\ error = "ZeroDivisionError"
    /\ Len(Val(original)) > 0
    /\ Len(hashed_recipe) > 0

====
